---- MODULE Spec2Model ----
(***************************************************************************)
(* Model of agora_results/pipes/results.py: the pipes do_tallies,          *)
(* to_files and apply_removals and the CSV hook __patcher installs.        *)
(*                                                                         *)
(* A job ("data" in the source) is a Python dict.  It is modelled as a     *)
(* record whose field keys is the set of keys the dict holds; a field      *)
(* whose key is absent keeps a fixed default value.  Python positions are  *)
(* 0-based: position i of a list is element i + 1 of the sequence.         *)
(***************************************************************************)
EXTENDS Integers, Sequences, FiniteSets, TLC

VARIABLES
    jobs,            \* data_list: the batch of jobs
    before,          \* data_list as it was when the pipe was called
    pc,              \* position of the running pipe
    args,            \* keyword arguments of do_tallies
    dindex,          \* do_tallies: position of the job of the for loop
    qpos,            \* do_tallies: position of the size correction loop
    questions_json,  \* do_tallies: local questions_json
    aliased,         \* questions_json is the list data['results']['questions']
    tallies,         \* do_tallies: local tallies, filled by the engine
    engine_call,     \* arguments of the last agora_tally.tally.do_tally call
    results,         \* do_tallies: local results, returned by the engine
    jobBefore,       \* the job as it was when the loop body started on it
    trace,           \* steps taken by do_tallies so far, oldest first
    raised,          \* where the exception that ended the pipe came from
    paths,           \* to_files: argument paths
    pos,             \* to_files: local i
    files,           \* file system of the working directory: name -> content
    tally,           \* the engine's tally object of the CSV hook
    ballots,         \* outcomes of the engine's own parse_vote, per ballot
    returned,        \* what tally.parse_vote gave back to the engine
    stdout           \* lines printed

tallyVars == <<args, dindex, qpos, questions_json, aliased, tallies,
               engine_call, results, jobBefore, trace>>
fileVars == <<paths, pos, files>>
csvVars == <<tally, ballots, returned, stdout>>
vars == <<jobs, before, pc, raised, tallyVars, fileVars, csvVars>>

(***************************************************************************)
(* Bounds                                                                  *)
(***************************************************************************)
NJobs == 2
MaxQuestions == 2
MaxAnswers == 2
MaxBallots == 3
MaxRemovals == 2

(***************************************************************************)
(* Values                                                                  *)
(***************************************************************************)
\* positions 0 .. n-1 of a Python list of length n
Positions(n) == 0 .. (n - 1)

\* an optional argument: None, or a collection of indexes
NoneArg == [given |-> FALSE, members |-> {}]
SomeArg(s) == [given |-> TRUE, members |-> s]

EmptyLog == [kind |-> "empty", run |-> 0, question_num |-> 0]
NoResults == [questions |-> <<>>, run |-> 0]
NoCall == [called |-> 0, job |-> 0, questions |-> <<>>, question_indexes |-> NoneArg,
           ignore_invalid_votes |-> TRUE, patched |-> FALSE,
           withdrawals |-> <<>>]

HasKey(data, key) == key \in data.keys

RECURSIVE SeqMap(_, _)
SeqMap(Op(_), s) ==
    IF s = <<>> THEN <<>> ELSE <<Op(Head(s))>> \o SeqMap(Op, Tail(s))

Range(s) == {s[i] : i \in 1 .. Len(s)}

IsPrefix(s, t) == Len(s) <= Len(t) /\ SubSeq(t, 1, Len(s)) = s

(***************************************************************************)
(* Jobs                                                                    *)
(***************************************************************************)
Answer(i) == [id |-> i, text |-> IF i = 0 THEN "A" ELSE IF i = 1 THEN "B" ELSE "C"]

Question(nanswers) ==
    [answers |-> [i \in 1 .. nanswers |-> Answer(i - 1)], size |-> 0]

\* the parsed content of the file questions_json under extract_dir; the
\* directory is named by the number of questions its file holds
ReadQuestions(extract_dir) == [i \in 1 .. extract_dir |-> Question(MaxAnswers)]

\* data['size_corrections_apply_to_question'], the hook the job supplies:
\* it changes the question in place
ApplySizeCorrection(question, size_corrections) ==
    [question EXCEPT !.size = @ + size_corrections]

\* the log a tally of the engine gives: tally.get_log()
TallyLog(t) == [kind |-> "engine", run |-> t.run, question_num |-> t.question_num]

\* agora_tally.tally.do_tally, as this module relies on it: it returns the
\* questions with their counts and appends one tally per question, in
\* question order, each patched by monkey_patcher when one is given
EngineResults(questions, run) == [questions |-> questions, run |-> run]
EngineTallies(questions, run, patched) ==
    [i \in 1 .. Len(questions) |->
        [question_num |-> i - 1, run |-> run, patched |-> patched]]

BlankJob(n) ==
    [keys |-> {"extract_dir"}, extract_dir |-> n, results |-> NoResults,
     log |-> <<>>, size_corrections |-> 0, withdrawals |-> <<>>,
     removed_candidates |-> <<>>]

\* a job as an earlier do_tallies(data_list) left it
TalliedJob(data) ==
    LET corrected(q) == ApplySizeCorrection(q, data.size_corrections)
        questions == IF HasKey(data, "size_corrections")
                     THEN SeqMap(corrected, ReadQuestions(data.extract_dir))
                     ELSE ReadQuestions(data.extract_dir)
    IN [data EXCEPT
          !.keys = @ \cup {"results", "log"},
          !.results = EngineResults(questions, 0),
          !.log = SeqMap(TallyLog, EngineTallies(questions, 0, FALSE))]

WithCorrections(data) ==
    [data EXCEPT !.keys = @ \cup {"size_corrections"}, !.size_corrections = 1]
WithWithdrawals(data) ==
    [data EXCEPT !.keys = @ \cup {"withdrawals"},
                 !.withdrawals = <<[question_index |-> 0, answer_id |-> 0]>>]

\* a job has no question or MaxQuestions of them and carries both optional
\* lists or neither; a job with questions is new or was tallied before
TallyJobs ==
    LET base == {BlankJob(0), BlankJob(MaxQuestions)}
        full == base \cup {WithWithdrawals(WithCorrections(d)) : d \in base}
    IN full \cup {TalliedJob(d) : d \in {f \in full : f.extract_dir > 0}}

IndexArgs(n) == {NoneArg} \cup {SomeArg(s) : s \in SUBSET Positions(n)}

TallyArgs ==
    [ignore_invalid_votes : {TRUE}, print_as_csv : BOOLEAN,
     question_indexes : IndexArgs(MaxQuestions), reuse_results : BOOLEAN,
     tallies_indexes : IndexArgs(NJobs)]

(***************************************************************************)
(* do_tallies                                                              *)
(***************************************************************************)
Event(step, job, question) == [step |-> step, job |-> job, question |-> question]

Skipped_OneBased(tallies_indexes, d) ==
    tallies_indexes.given /\ (d + 1) \notin tallies_indexes.members

\* line 27: the job at position dindex is passed over
Skipped(tallies_indexes, d) ==
    tallies_indexes.given /\ d \notin tallies_indexes.members

HasSizeCorrections_Always(data) == TRUE

\* line 38
HasSizeCorrections(data) == HasKey(data, "size_corrections")

\* lines 47-49: the withdrawals handed to the engine
Withdrawals(data, questions) ==
    IF Len(questions) = 0
    THEN <<>>
    ELSE IF HasKey(data, "withdrawals") THEN data.withdrawals ELSE <<>>

\* lines 43-45: whether a monkey patcher is handed to the engine
MonkeyPatched(print_as_csv) == print_as_csv

\* lines 61-65: get_log takes the entry from the job, not from the tally
Excluded(question_indexes, index) ==
    question_indexes.given /\ index \notin question_indexes.members

\* line 65 raises IndexError: the job's log has no entry at index
get_log_raises(data, index, question_indexes) ==
    /\ Excluded(question_indexes, index)
    /\ HasKey(data, "log")
    /\ index >= Len(data.log)

get_log_Fresh(data, t, index, question_indexes) == TallyLog(t)

\* lines 60-66
get_log(data, t, index, question_indexes) ==
    IF Excluded(question_indexes, index)
    THEN IF ~HasKey(data, "log") THEN EmptyLog ELSE data.log[index + 1]
    ELSE TallyLog(t)

Raise(where) ==
    /\ pc' = "raised"
    /\ raised' = where

\* lines 26-30: the for loop takes the next job, passes over it, or ends
ForJob ==
    /\ pc = "for"
    /\ IF dindex >= Len(jobs)
       THEN /\ pc' = "returned"
            /\ UNCHANGED <<dindex, tallies, jobBefore>>
       ELSE IF Skipped(args.tallies_indexes, dindex)
       THEN /\ dindex' = dindex + 1
            /\ UNCHANGED <<pc, tallies, jobBefore>>
       ELSE /\ pc' = "load"
            /\ tallies' = <<>>
            /\ jobBefore' = jobs[dindex + 1]
            /\ UNCHANGED dindex
    /\ UNCHANGED <<jobs, before, raised, args, qpos, questions_json, aliased,
                   engine_call, results, trace, fileVars, csvVars>>

\* lines 31-36: questions_json is read from the file, or is the list of the
\* job's results
LoadQuestions ==
    /\ pc = "load"
    /\ LET data == jobs[dindex + 1] IN
       IF ~args.reuse_results
       THEN \E readable \in BOOLEAN :
              IF readable
              THEN /\ questions_json' = ReadQuestions(data.extract_dir)
                   /\ aliased' = FALSE
                   /\ trace' = Append(trace, Event("questions", dindex, -1))
                   /\ qpos' = 0
                   /\ pc' = "correct"
                   /\ UNCHANGED raised
              ELSE /\ Raise("open")
                   /\ UNCHANGED <<questions_json, aliased, trace, qpos>>
       ELSE IF HasKey(data, "results")
       THEN /\ questions_json' = data.results.questions
            /\ aliased' = TRUE
            /\ trace' = Append(trace, Event("questions", dindex, -1))
            /\ qpos' = 0
            /\ pc' = "correct"
            /\ UNCHANGED raised
       ELSE /\ Raise("results")
            /\ UNCHANGED <<questions_json, aliased, trace, qpos>>
    /\ UNCHANGED <<jobs, before, args, dindex, tallies, engine_call, results,
                   jobBefore, fileVars, csvVars>>

\* lines 38-41: one turn of the size correction loop; the hook changes the
\* question in place, so also in the job's results when the list is theirs
CorrectQuestion ==
    /\ pc = "correct"
    /\ LET data == jobs[dindex + 1] IN
       IF HasSizeCorrections(data) /\ qpos < Len(questions_json)
       THEN \E ok \in BOOLEAN :
              IF ok
              THEN LET q == ApplySizeCorrection(questions_json[qpos + 1],
                                                data.size_corrections)
                   IN /\ questions_json' = [questions_json EXCEPT ![qpos + 1] = q]
                      /\ jobs' = IF aliased
                                 THEN [jobs EXCEPT
                                        ![dindex + 1].results.questions[qpos + 1] = q]
                                 ELSE jobs
                      /\ trace' = Append(trace, Event("correct", dindex, qpos))
                      /\ qpos' = qpos + 1
                      /\ UNCHANGED <<pc, raised>>
              ELSE /\ Raise("size_corrections_apply_to_question")
                   /\ UNCHANGED <<questions_json, jobs, trace, qpos>>
       ELSE /\ pc' = "tally"
            /\ UNCHANGED <<questions_json, jobs, trace, qpos, raised>>
    /\ UNCHANGED <<before, args, dindex, aliased, tallies, engine_call,
                   results, jobBefore, fileVars, csvVars>>

\* lines 43-58: the engine is called; it returns the results and fills
\* tallies, or it raises
Tally ==
    /\ pc = "tally"
    /\ LET data == jobs[dindex + 1]
           patched == MonkeyPatched(args.print_as_csv)
       IN /\ engine_call' =
                [called |-> engine_call.called + 1,
                 job |-> dindex,
                 questions |-> questions_json,
                 question_indexes |-> args.question_indexes,
                 ignore_invalid_votes |-> args.ignore_invalid_votes,
                 patched |-> patched,
                 withdrawals |-> Withdrawals(data, questions_json)]
          /\ trace' = Append(trace, Event("tally", dindex, -1))
          /\ \E ok \in BOOLEAN :
               IF ok
               THEN /\ results' = EngineResults(questions_json, 1)
                    /\ tallies' = tallies \o EngineTallies(questions_json, 1, patched)
                    /\ pc' = "store_results"
                    /\ UNCHANGED raised
               ELSE /\ Raise("do_tally")
                    /\ UNCHANGED <<results, tallies>>
    /\ UNCHANGED <<jobs, before, args, dindex, qpos, questions_json, aliased,
                   jobBefore, fileVars, csvVars>>

\* line 68
StoreResults ==
    /\ pc = "store_results"
    /\ jobs' = [jobs EXCEPT ![dindex + 1].keys = @ \cup {"results"},
                            ![dindex + 1].results = results]
    /\ aliased' = FALSE
    /\ trace' = Append(trace, Event("store_results", dindex, -1))
    /\ pc' = "store_log"
    /\ UNCHANGED <<before, raised, args, dindex, qpos, questions_json, tallies,
                   engine_call, results, jobBefore, fileVars, csvVars>>

\* line 69: the log is assembled from the tallies and then stored
StoreLog ==
    /\ pc = "store_log"
    /\ LET data == jobs[dindex + 1]
           qi == args.question_indexes
       IN IF \E i \in Positions(Len(tallies)) : get_log_raises(data, i, qi)
          THEN /\ Raise("get_log")
               /\ trace' = Append(trace, Event("assemble_log", dindex, -1))
               /\ UNCHANGED <<jobs, dindex>>
          ELSE /\ jobs' = [jobs EXCEPT
                            ![dindex + 1].keys = @ \cup {"log"},
                            ![dindex + 1].log =
                                [i \in 1 .. Len(tallies) |->
                                    get_log(data, tallies[i], i - 1, qi)]]
               /\ trace' = trace \o <<Event("assemble_log", dindex, -1),
                                      Event("store_log", dindex, -1)>>
               /\ dindex' = dindex + 1
               /\ pc' = "for"
               /\ UNCHANGED raised
    /\ UNCHANGED <<before, args, qpos, questions_json, aliased, tallies,
                   engine_call, results, jobBefore, fileVars, csvVars>>

\* the variables of the pipes that do not run
TallyIdle ==
    /\ args = NoneArg
    /\ dindex = 0
    /\ qpos = 0
    /\ questions_json = <<>>
    /\ aliased = FALSE
    /\ tallies = <<>>
    /\ engine_call = NoCall
    /\ results = NoResults
    /\ jobBefore = BlankJob(0)
    /\ trace = <<>>

FilesIdle ==
    /\ paths = <<>>
    /\ pos = 0
    /\ files = {}

CsvIdle ==
    /\ tally = [question_num |-> 0, run |-> 0, patched |-> FALSE]
    /\ ballots = <<>>
    /\ returned = <<>>
    /\ stdout = <<>>

InitTally ==
    /\ jobs \in [1 .. NJobs -> TallyJobs]
    /\ before = jobs
    /\ pc = "for"
    /\ raised = "nothing"
    /\ args \in TallyArgs
    /\ dindex = 0
    /\ qpos = 0
    /\ questions_json = <<>>
    /\ aliased = FALSE
    /\ tallies = <<>>
    /\ engine_call = NoCall
    /\ results = NoResults
    /\ jobBefore = BlankJob(0)
    /\ trace = <<>>
    /\ FilesIdle
    /\ CsvIdle

NextTally ==
    \/ ForJob
    \/ LoadQuestions
    \/ CorrectQuestion
    \/ Tally
    \/ StoreResults
    \/ StoreLog

SpecTally == InitTally /\ [][NextTally]_vars

(***************************************************************************)
(* Properties of do_tallies                                                *)
(***************************************************************************)
InIndexes(arg, i) == ~arg.given \/ i \in arg.members

StoredLog(d) == Event("store_log", d, -1) \in Range(trace)

\* C1: a job whose position is not in tallies_indexes is, at every step of
\* do_tallies and after it returned or raised, the job it was at the call.
C1_SkippedJobsUntouched ==
    \A d \in Positions(Len(jobs)) :
        ~InIndexes(args.tallies_indexes, d) => jobs[d + 1] = before[d + 1]

C1_Witness ==
    /\ pc = "returned"
    /\ \E d \in Positions(Len(jobs)) : ~InIndexes(args.tallies_indexes, d)
    /\ \E d \in Positions(Len(jobs)) :
         /\ InIndexes(args.tallies_indexes, d)
         /\ jobs[d + 1] # before[d + 1]

C3_EngineFailureLeavesJob ==
    (pc = "raised" /\ raised = "do_tally") => jobs[dindex + 1] = jobBefore

\* C9: the withdrawals handed to the engine are the job's withdrawals when
\* it has the key, and the empty list otherwise.
C9_WithdrawalsFromJob ==
    engine_call.called > 0 =>
        LET data == before[engine_call.job + 1] IN
        engine_call.withdrawals =
            IF "withdrawals" \in data.keys THEN data.withdrawals ELSE <<>>

\* the steps of the job at position d, in the order the claim gives them and
\* in the order of the code
QuestionCount(d) ==
    IF args.reuse_results
    THEN Len(before[d + 1].results.questions)
    ELSE Len(ReadQuestions(before[d + 1].extract_dir))

CorrectionSteps(d) ==
    IF "size_corrections" \in before[d + 1].keys
    THEN [i \in 1 .. QuestionCount(d) |-> Event("correct", d, i - 1)]
    ELSE <<>>

ClaimedJobSteps(d) ==
    <<Event("questions", d, -1)>> \o CorrectionSteps(d) \o
    <<Event("tally", d, -1), Event("assemble_log", d, -1),
      Event("store_results", d, -1), Event("store_log", d, -1)>>

CodeJobSteps(d) ==
    <<Event("questions", d, -1)>> \o CorrectionSteps(d) \o
    <<Event("tally", d, -1), Event("store_results", d, -1),
      Event("assemble_log", d, -1), Event("store_log", d, -1)>>

RECURSIVE Schedule(_, _)
Schedule(JobSteps(_), d) ==
    IF d >= Len(jobs)
    THEN <<>>
    ELSE (IF InIndexes(args.tallies_indexes, d) THEN JobSteps(d) ELSE <<>>)
         \o Schedule(JobSteps, d + 1)

\* C10 as stated: jobs in ascending position, each one questions, the size
\* correction once per question in question order, one engine call, the
\* log assembled, results and log stored.
C10_StepsAsClaimed ==
    /\ IsPrefix(trace, Schedule(ClaimedJobSteps, 0))
    /\ pc = "returned" => trace = Schedule(ClaimedJobSteps, 0)

\* C10 amended: the same, with the results stored before the log is
\* assembled: questions, the size correction once per question in question
\* order (only with size corrections), one engine call, results stored, log
\* assembled, log stored; the steps of a job all precede those of the next.
C10_StepsOfCode ==
    /\ IsPrefix(trace, Schedule(CodeJobSteps, 0))
    /\ pc = "returned" => trace = Schedule(CodeJobSteps, 0)

C10_Witness ==
    /\ pc = "returned"
    /\ \A d \in Positions(Len(jobs)) : StoredLog(d)
    /\ \E d \in Positions(Len(jobs)) :
         /\ Event("correct", d, MaxQuestions - 1) \in Range(trace)
    /\ \E d \in Positions(Len(jobs)) :
         /\ "size_corrections" \notin jobs[d + 1].keys
         /\ QuestionCount(d) > 0

(***************************************************************************)
(* apply_removals                                                          *)
(***************************************************************************)
RECURSIVE IsSubsequence(_, _)
IsSubsequence(s, t) ==
    IF s = <<>> THEN TRUE
    ELSE IF t = <<>> THEN FALSE
    ELSE IF Head(s) = Head(t) THEN IsSubsequence(Tail(s), Tail(t))
    ELSE IsSubsequence(s, Tail(t))

q_removed_AnyQuestion(removed_list, qindex) ==
    [i \in 1 .. Len(removed_list) |-> removed_list[i].answer_id]

\* lines 90-93: the answer ids the records name for question qindex
q_removed(removed_list, qindex) ==
    LET named(removed) == removed.question_index = qindex
        picked == SelectSeq(removed_list, named)
    IN [i \in 1 .. Len(picked) |-> picked[i].answer_id]

RECURSIVE KeepPositions(_, _, _)
KeepPositions(answers, position, removed) ==
    IF answers = <<>> THEN <<>>
    ELSE (IF position \in removed THEN <<>> ELSE <<Head(answers)>>)
         \o KeepPositions(Tail(answers), position + 1, removed)

FilterAnswers_ByPosition(answers, removed) ==
    KeepPositions(answers, 0, Range(removed))

\* line 94: the answers whose id is not in the list
FilterAnswers(answers, removed) ==
    LET kept(answer) == answer.id \notin Range(removed)
    IN SelectSeq(answers, kept)

\* lines 88-94: the loop over the questions of the job's results
RemoveFromQuestions(questions, removed_list) ==
    [i \in 1 .. Len(questions) |->
        [questions[i] EXCEPT
            !.answers = FilterAnswers(@, q_removed(removed_list, i - 1))]]

\* line 89 raises KeyError: the first job has a removal list and no results
apply_removals_raises(data_list) ==
    /\ HasKey(data_list[1], "removed-candidates")
    /\ ~HasKey(data_list[1], "results")

apply_removals_EveryJob(data_list) ==
    [i \in 1 .. Len(data_list) |->
        IF HasKey(data_list[i], "removed-candidates") /\ HasKey(data_list[i], "results")
        THEN [data_list[i] EXCEPT !.results.questions =
                RemoveFromQuestions(@, data_list[i].removed_candidates)]
        ELSE data_list[i]]

\* lines 82-94: the batch apply_removals leaves when it does not raise
apply_removals(data_list) ==
    IF ~HasKey(data_list[1], "removed-candidates")
    THEN data_list
    ELSE [data_list EXCEPT ![1].results.questions =
            RemoveFromQuestions(@, data_list[1].removed_candidates)]

ApplyRemovals ==
    /\ pc \in {"start", "once"}
    /\ before' = jobs
    /\ IF apply_removals_raises(jobs)
       THEN /\ Raise("results")
            /\ UNCHANGED jobs
       ELSE /\ jobs' = apply_removals(jobs)
            /\ pc' = IF pc = "start" THEN "once" ELSE "twice"
            /\ UNCHANGED raised
    /\ UNCHANGED <<tallyVars, fileVars, csvVars>>

\* questions whose answers are in the order of their ids, or in the reverse
Reversed(s) == [i \in 1 .. Len(s) |-> s[Len(s) + 1 - i]]

TalliedResults ==
    LET asc == Question(MaxAnswers)
        desc == [asc EXCEPT !.answers = Reversed(@)]
    IN {EngineResults([i \in 1 .. MaxQuestions |-> q], 0) : q \in {asc, desc}}

RemovalRecords ==
    [question_index : Positions(MaxQuestions), answer_id : Positions(MaxAnswers)]

RemovalLists ==
    UNION {[1 .. n -> RemovalRecords] : n \in 0 .. MaxRemovals}

WithResults(data, r) ==
    [data EXCEPT !.keys = @ \cup {"results"}, !.results = r]
WithRemovals(data, removed_list) ==
    [data EXCEPT !.keys = @ \cup {"removed-candidates"},
                 !.removed_candidates = removed_list]

\* the first job: without results or with them, without a removal list or
\* with any list of at most MaxRemovals records
FirstJobs ==
    LET base == {BlankJob(MaxQuestions)}
                \cup {WithResults(BlankJob(MaxQuestions), r) : r \in TalliedResults}
    IN base \cup {WithRemovals(d, l) : d \in base, l \in RemovalLists}

\* a later job: with results, without a removal list or with the list that
\* names the answer with id 0 of every question
LaterJobs ==
    LET base == {WithResults(BlankJob(MaxQuestions), r) : r \in TalliedResults}
        every == [i \in 1 .. MaxQuestions |->
                     [question_index |-> i - 1, answer_id |-> 0]]
    IN base \cup {WithRemovals(d, every) : d \in base}

RemovalJobs ==
    {<<f>> \o l : f \in FirstJobs, l \in [1 .. (NJobs - 1) -> LaterJobs]}

InitRemovals ==
    /\ jobs \in RemovalJobs
    /\ before = jobs
    /\ pc = "start"
    /\ raised = "nothing"
    /\ TallyIdle
    /\ FilesIdle
    /\ CsvIdle

NextRemovals == ApplyRemovals

SpecRemovals == InitRemovals /\ [][NextRemovals]_vars

(***************************************************************************)
(* Properties of apply_removals                                            *)
(***************************************************************************)
Named(data, qindex, id) ==
    \E i \in 1 .. Len(data.removed_candidates) :
        /\ data.removed_candidates[i].question_index = qindex
        /\ data.removed_candidates[i].answer_id = id

Ids(answers) == {answers[i].id : i \in 1 .. Len(answers)}

\* C4: after apply_removals on a first job with a removal list, the answers
\* of the question at each position q are answers it had, in the order it
\* had them, and an answer it had is still there exactly when no removal
\* record with question_index = q names its id.
C4_RemovesExactlyNamed ==
    (pc = "once" /\ "removed-candidates" \in before[1].keys) =>
        \A q \in Positions(Len(before[1].results.questions)) :
            LET old == before[1].results.questions[q + 1].answers
                new == jobs[1].results.questions[q + 1].answers
            IN /\ IsSubsequence(new, old)
               /\ \A a \in Range(old) :
                    a \in Range(new) <=> ~Named(before[1], q, a.id)

C4_Witness ==
    /\ pc = "once"
    /\ "removed-candidates" \in before[1].keys
    /\ \E q, p \in Positions(Len(before[1].results.questions)) :
         \E a, b \in Range(before[1].results.questions[q + 1].answers) :
           /\ p # q
           /\ Named(before[1], q, a.id)
           /\ Named(before[1], p, b.id)
           /\ ~Named(before[1], q, b.id)
           /\ a \notin Range(jobs[1].results.questions[q + 1].answers)
           /\ b \in Range(jobs[1].results.questions[q + 1].answers)

\* C5: a second apply_removals right after the first leaves the batch as the
\* first left it.
C5_Idempotent ==
    pc = "twice" => jobs = before

C5_Witness ==
    /\ pc = "twice"
    /\ \E q \in Positions(Len(jobs[1].results.questions)) :
         \E id \in Positions(MaxAnswers) :
           /\ Named(jobs[1], q, id)
           /\ id \notin Ids(jobs[1].results.questions[q + 1].answers)
           /\ jobs[1].results.questions[q + 1].answers # <<>>

\* C6: apply_removals leaves every job after the first as it was; of the
\* first job it changes only the answers of the questions of its results;
\* without a removal list on the first job it changes nothing.
C6_OnlyFirstJobAnswers ==
    pc \in {"once", "twice", "raised"} =>
        /\ \A i \in 2 .. Len(jobs) : jobs[i] = before[i]
        /\ Len(jobs) = Len(before)
        /\ [jobs[1] EXCEPT !.results = NoResults]
             = [before[1] EXCEPT !.results = NoResults]
        /\ jobs[1].results.run = before[1].results.run
        /\ Len(jobs[1].results.questions) = Len(before[1].results.questions)
        /\ \A q \in 1 .. Len(before[1].results.questions) :
             [jobs[1].results.questions[q] EXCEPT !.answers = <<>>]
               = [before[1].results.questions[q] EXCEPT !.answers = <<>>]
        /\ "removed-candidates" \notin before[1].keys => jobs = before

C6_Witness ==
    /\ pc = "once"
    /\ jobs[1] # before[1]
    /\ \E i \in 2 .. Len(jobs) :
         /\ "results" \in jobs[i].keys
         /\ \E q \in Positions(Len(jobs[i].results.questions)) :
              \E a \in Range(jobs[i].results.questions[q + 1].answers) :
                Named(jobs[i], q, a.id)

(***************************************************************************)
(* to_files                                                                *)
(***************************************************************************)
\* a path is the sequence of its components, the parts between the slashes:
\* "a/x.json" is <<"a", "x.json">> and "a/" is <<"a", "">>

\* line 74, os.path.basename: what follows the last slash
basename(path) == path[Len(path)]

\* lines 78-79, json.dumps with sort_keys: the members of the object in the
\* order of their keys
json_dumps(r) == << <<"questions", r.questions>>, <<"run", r.run>> >>

\* line 77, open(name, 'w'): the file exists and is empty
Truncated(fs, name) ==
    {f \in fs : f.name # name} \cup {[name |-> name, content |-> <<>>]}

\* line 78, f.write
Written(fs, name, content) ==
    {f \in fs : f.name # name} \cup {[name |-> name, content |-> content]}

\* lines 76-80: one turn of the loop, or its end
WriteFile ==
    /\ pc = "write"
    /\ IF pos >= Len(jobs)
       THEN /\ pc' = "returned"
            /\ UNCHANGED <<raised, files, pos>>
       ELSE IF pos >= Len(paths)
       THEN /\ Raise("paths")
            /\ UNCHANGED <<files, pos>>
       ELSE LET name == basename(paths[pos + 1])
                data == jobs[pos + 1]
            IN IF name = ""
               THEN /\ Raise("open")
                    /\ UNCHANGED <<files, pos>>
               ELSE IF ~HasKey(data, "results")
               THEN /\ Raise("results")
                    /\ files' = Truncated(files, name)
                    /\ UNCHANGED pos
               ELSE /\ files' = Written(files, name, json_dumps(data.results))
                    /\ pos' = pos + 1
                    /\ UNCHANGED <<pc, raised>>
    /\ UNCHANGED <<jobs, before, paths, tallyVars, csvVars>>

Paths ==
    LET names == {"x.json", "y.json"}
        dirs == {"a", ".."}
    IN {<<n>> : n \in names} \cup {<<d, n>> : d \in dirs, n \in names \cup {""}}

\* the caller names every file once; it may name too few
PathLists ==
    {l \in UNION {[1 .. n -> Paths] : n \in (NJobs - 1) .. NJobs} :
        \A i, j \in 1 .. Len(l) : i # j => l[i] # l[j]}

FileJobs ==
    {BlankJob(MaxQuestions)}
    \cup {WithResults(BlankJob(MaxQuestions), r) : r \in TalliedResults}

InitFiles ==
    /\ jobs \in [1 .. NJobs -> FileJobs]
    /\ before = jobs
    /\ pc = "write"
    /\ raised = "nothing"
    /\ paths \in PathLists
    /\ pos = 0
    /\ files = {}
    /\ TallyIdle
    /\ CsvIdle

NextFiles == WriteFile

SpecFiles == InitFiles /\ [][NextFiles]_vars

\* C7: after to_files returned, the file named by the base name of the path
\* at each position holds the serialization of the results of the job at
\* that position.
C7_EveryJobInItsFile ==
    pc = "returned" =>
        \A p \in Positions(Len(jobs)) :
            [name |-> basename(paths[p + 1]),
             content |-> json_dumps(jobs[p + 1].results)] \in files

(***************************************************************************)
(* The CSV hook                                                            *)
(***************************************************************************)
Returns(vote) == [kind |-> "return", vote |-> vote, error |-> "none"]
Raises(error) == [kind |-> "raise", vote |-> <<>>, error |-> error]

\* line 10, the parse_vote of the engine's tally, by what it makes of the
\* ballot: the selected answer positions, BlankVoteException or another error
parse_vote(outcome) ==
    IF outcome.kind = "vote" THEN Returns(outcome.vote) ELSE Raises(outcome.kind)

parse_vote_f_NoExcept(outcome) == parse_vote(outcome)

\* lines 13-16 and 19: what parse_vote_f gives the engine
parse_vote_f(outcome) ==
    LET vote == parse_vote(outcome)
    IN IF vote.kind = "raise" /\ vote.error = "blank" THEN Returns(<<>>) ELSE vote

RECURSIVE Join(_, _)
Join(sep, strs) ==
    IF Len(strs) = 1 THEN strs[1] ELSE strs[1] \o sep \o Join(sep, Tail(strs))

\* lines 17-18: the line printed for a vote
CsvLine(question_num, q, vote) ==
    LET entry(i) == "\"" \o ToString(i) \o ". " \o q.answers[i + 1].text \o "\""
    IN Join(",", <<ToString(question_num)>> \o SeqMap(entry, vote))

\* the engine creates the tally of a question and hands it to the monkey
\* patcher do_tallies gave it (lines 43-45, 57); __patcher replaces
\* tally.parse_vote (line 21)
CreateTally ==
    /\ pc = "create"
    /\ \E n \in Positions(MaxQuestions) :
         tally' = [question_num |-> n, run |-> 1,
                   patched |-> MonkeyPatched(args.print_as_csv)]
    /\ pc' = "parse"
    /\ UNCHANGED <<jobs, before, raised, tallyVars, fileVars, ballots,
                   returned, stdout>>

\* the question the engine hands to parse_vote along with the ballot
BallotQuestion == Question(MaxAnswers)

Selections ==
    {s \in UNION {[1 .. n -> Positions(MaxAnswers)] : n \in 0 .. MaxAnswers} :
        \A i, j \in 1 .. Len(s) : i # j => s[i] # s[j]}

ParseOutcomes ==
    [kind : {"vote"}, vote : Selections]
    \cup [kind : {"blank", "invalid"}, vote : {<<>>}]

\* the engine calls tally.parse_vote on the next ballot
ParseBallot ==
    /\ pc = "parse"
    /\ Len(ballots) < MaxBallots
    /\ \E outcome \in ParseOutcomes :
         /\ ballots' = Append(ballots, outcome)
         /\ IF tally.patched
            THEN LET vote == parse_vote_f(outcome)
                 IN /\ returned' = Append(returned, vote)
                    /\ stdout' =
                         IF vote.kind = "return"
                         THEN Append(stdout,
                                     CsvLine(tally.question_num, BallotQuestion, vote.vote))
                         ELSE stdout
            ELSE /\ returned' = Append(returned, parse_vote(outcome))
                 /\ UNCHANGED stdout
    /\ UNCHANGED <<jobs, before, pc, raised, tallyVars, fileVars, tally>>

InitCsv ==
    /\ jobs = <<>>
    /\ before = <<>>
    /\ pc = "create"
    /\ raised = "nothing"
    /\ args \in {a \in TallyArgs : /\ a.question_indexes = NoneArg
                                  /\ a.tallies_indexes = NoneArg
                                  /\ ~a.reuse_results}
    /\ dindex = 0
    /\ qpos = 0
    /\ questions_json = <<>>
    /\ aliased = FALSE
    /\ tallies = <<>>
    /\ engine_call = NoCall
    /\ results = NoResults
    /\ jobBefore = BlankJob(0)
    /\ trace = <<>>
    /\ FilesIdle
    /\ tally = [question_num |-> 0, run |-> 0, patched |-> FALSE]
    /\ ballots = <<>>
    /\ returned = <<>>
    /\ stdout = <<>>

NextCsv ==
    \/ CreateTally
    \/ ParseBallot

SpecCsv == InitCsv /\ [][NextCsv]_vars

(***************************************************************************)
(* Properties of the CSV hook                                              *)
(***************************************************************************)
\* what the engine's own parser made of ballot k, as the hook must hand it on
Handed(outcome) ==
    IF outcome.kind = "vote" THEN Returns(outcome.vote)
    ELSE IF outcome.kind = "blank" THEN Returns(<<>>)
    ELSE Raises(outcome.kind)

ExpectedLine(outcome) ==
    IF outcome.kind = "blank"
    THEN ToString(tally.question_num)
    ELSE CsvLine(tally.question_num, BallotQuestion, outcome.vote)

\* C8 as stated: with print_as_csv one line is printed per ballot, in the
\* order of the ballots, and the engine gets the selection of its own parser,
\* or the empty selection and no error for a blank ballot.
C8_OneLinePerBallot ==
    (args.print_as_csv /\ pc = "parse") =>
        /\ Len(stdout) = Len(ballots)
        /\ \A k \in 1 .. Len(ballots) :
             /\ k <= Len(stdout) => stdout[k] = ExpectedLine(ballots[k])
             /\ returned[k] = Handed(ballots[k])
             /\ ballots[k].kind = "blank" => returned[k].kind = "return"

\* C8 amended: with print_as_csv one line is printed per ballot of which
\* the engine's own parser gave a selection or signalled a blank ballot, in
\* the order of those ballots; the engine gets that selection, or the empty
\* selection and no error for a blank ballot, whose line holds the question
\* number only; any other error of the parser reaches the engine and no
\* line is printed for that ballot.
C8_OneLinePerParsedBallot ==
    (args.print_as_csv /\ pc = "parse") =>
        LET parsed(outcome) == outcome.kind # "invalid"
            lined == SelectSeq(ballots, parsed)
        IN /\ Len(stdout) = Len(lined)
           /\ \A k \in 1 .. Len(lined) : stdout[k] = ExpectedLine(lined[k])
           /\ Len(returned) = Len(ballots)
           /\ \A k \in 1 .. Len(ballots) :
                /\ returned[k] = Handed(ballots[k])
                /\ ballots[k].kind = "blank" => returned[k] = Returns(<<>>)
                /\ ballots[k].kind = "invalid" => returned[k] = Raises("invalid")

C8_Witness ==
    /\ args.print_as_csv
    /\ Len(ballots) = MaxBallots
    /\ ballots[1].kind = "blank"
    /\ ballots[2].kind = "vote" /\ Len(ballots[2].vote) = MaxAnswers
    /\ stdout[1] = ToString(tally.question_num)
    /\ Len(stdout) = Len(ballots)

====
